---- MODULE Spec2Model ----
(***************************************************************************)
(* A model of wxminer's WeChat class (src/wxminer/wechat.py): the contact  *)
(* remark decoder, account selection with its derived state, the message   *)
(* table locator, the raw-row query with its date filter, and the message  *)
(* decoder with the group display-name mapping.                            *)
(***************************************************************************)
EXTENDS Integers, Sequences, FiniteSets, TLC

VARIABLES
    files,          \* self.files: the backup's content, fixed at construction
    username,       \* self.username ("" : attribute holds the empty string)
    nickname,       \* self.nickname
    message_dbs,    \* self.message_dbs
    message_tables, \* self.message_tables
    friends,        \* self.friends
    groups,         \* self.groups
    attrs,          \* the instance attributes assigned so far
    call,           \* the last public call and its arguments
    raised,         \* the exception the last call surfaced ("" : none)
    result,         \* the rows the last call returned (<<>> : none)
    blob,           \* parse_remark's argument
    rpc,            \* parse_remark's position: "idle", "ready", "done"
    remark          \* parse_remark's outcome

vars == <<files, username, nickname, message_dbs, message_tables, friends,
          groups, attrs, call, raised, result, blob, rpc, remark>>

objvars == <<files, username, nickname, message_dbs, message_tables, friends,
             groups, attrs, call, raised, result>>

remvars == <<blob, rpc, remark>>

(***************************************************************************)
(* Bounds.                                                                 *)
(***************************************************************************)
MaxBlobLen == 4
MaxDb == 3
MaxDay == 2

Min(a, b) == IF a < b THEN a ELSE b

(***************************************************************************)
(* Bytes and UTF-8.  A blob is a nullable byte string: a NULL column value *)
(* reaches Python as None.                                                 *)
(***************************************************************************)
\* Length bytes 0..2, the tags 10 (nickname) and 1, 2, 97 (not enumerated),
\* the ASCII letter 97, and the two bytes of U+00E9 (195, 169).  No byte of
\* the alphabet is 224 or more, so only the one- and two-byte forms occur.
ByteVals == {0, 1, 2, 10, 97, 195, 169}

RECURSIVE SeqsUpTo(_, _)
SeqsUpTo(S, n) ==
    IF n = 0 THEN {<<>>}
    ELSE LET shorter == SeqsUpTo(S, n - 1)
         IN  shorter \cup {Append(s, x) : s \in {t \in shorter : Len(t) = n - 1}, x \in S}

NullBlob == [null |-> TRUE, bytes |-> <<>>]
Bytes(b) == [null |-> FALSE, bytes |-> b]

\* bytes.decode(): strict UTF-8.  err is TRUE where Python raises
\* UnicodeDecodeError, otherwise text holds the code points.
RECURSIVE Utf8Decode(_)
Utf8Decode(b) ==
    IF b = <<>> THEN [err |-> FALSE, text |-> <<>>]
    ELSE IF b[1] < 128
         THEN LET rest == Utf8Decode(Tail(b))
              IN  [err |-> rest.err, text |-> <<b[1]>> \o rest.text]
    ELSE IF b[1] >= 194 /\ b[1] <= 223 /\ Len(b) >= 2 /\ b[2] >= 128 /\ b[2] <= 191
         THEN LET rest == Utf8Decode(Tail(Tail(b)))
              IN  [err |-> rest.err,
                   text |-> <<(b[1] - 192) * 64 + (b[2] - 128)>> \o rest.text]
    ELSE [err |-> TRUE, text |-> <<>>]

(***************************************************************************)
(* The contact remark decoder.                                             *)
(***************************************************************************)
remark_fields ==
    (10 :> "nickname") @@ (18 :> "id_new") @@ (26 :> "alias")
    @@ (34 :> "alias_pinyin") @@ (42 :> "alias_PY")
    @@ (50 :> "nickname_pinyin") @@ (58 :> "description") @@ (66 :> "tag")

\* Series.rename(remark_fields): an enumerated tag becomes its field name,
\* any other tag stays (here: as its decimal numeral).
RemarkKey(t) == IF t \in DOMAIN remark_fields THEN remark_fields[t] ELSE ToString(t)

EmptyData == [t \in {} |-> <<>>]

\* The while loop of parse_remark from cursor csor (0-based, as in the code)
\* with the dict built so far.  blob[csor] on a cursor at or past the end
\* raises IndexError; the slice blob[csor:csor+step] is clipped to the buffer.
RECURSIVE RemarkLoop(_, _, _)
RemarkLoop(b, csor, data) ==
    IF ~(csor < Len(b)) THEN [err |-> "", data |-> data]
    ELSE LET dtype == b[csor + 1]
             c1    == csor + 1
         IN  IF ~(c1 < Len(b)) THEN [err |-> "IndexError", data |-> EmptyData]
             ELSE LET step    == b[c1 + 1]
                      c2      == c1 + 1
                      payload == SubSeq(b, c2 + 1, Min(c2 + step, Len(b)))
                      dec     == Utf8Decode(payload)
                  IN  IF dec.err
                      THEN [err |-> "UnicodeDecodeError", data |-> EmptyData]
                      ELSE RemarkLoop(b, c2 + step, (dtype :> dec.text) @@ data)

\* parse_remark: err is the exception it raises ("" : none); data maps each
\* field name to its decoded text.  len(None) raises TypeError.
parse_remark(bl) ==
    IF bl.null THEN [err |-> "TypeError", data |-> EmptyData]
    ELSE LET r == RemarkLoop(bl.bytes, 0, EmptyData)
         IN  IF r.err # "" THEN r
             ELSE [err |-> "",
                   data |-> [k \in {RemarkKey(t) : t \in DOMAIN r.data} |->
                               r.data[CHOOSE t \in DOMAIN r.data : RemarkKey(t) = k]]]

NoRemark == [err |-> "", data |-> EmptyData]

InitRemark ==
    /\ blob \in {NullBlob} \cup {Bytes(b) : b \in SeqsUpTo(ByteVals, MaxBlobLen)}
    /\ rpc = "ready"
    /\ remark = NoRemark

ParseRemarkCall ==
    /\ rpc = "ready"
    /\ remark' = parse_remark(blob)
    /\ rpc' = "done"
    /\ UNCHANGED <<blob, objvars>>

(***************************************************************************)
(* Identities, paths and table names.                                      *)
(***************************************************************************)
Users == {"alice_01", "bobby_02"}
Requests == {"", "alice_01", "bobby_02", "carol_03"}

\* hashlib.md5 is taken to be injective on the identities of a backup: the
\* digest is carried as a tagged copy of its argument.
_username_to_md5(u) == <<"md5", u>>

\* "Chat_" + md5(identity)
ChatTable(u) == <<"Chat_", _username_to_md5(u)>>

\* prefix + MY_MESSAGE_DB.format(i), and the real path self.files gives it.
MessageDb(u, i) == <<"Documents", _username_to_md5(u), "DB/message", i>>
ContactDb(u) == <<"Documents", _username_to_md5(u), "DB/WCDB_Contact.sqlite">>

\* _parse_blob: re.findall on None raises TypeError; the first match, or ""
\* when there is none.  A blob is carried with the matches findall returns.
_parse_blob(bl) ==
    IF bl.null THEN [err |-> "TypeError", v |-> ""]
    ELSE IF Len(bl.matches) > 0 THEN [err |-> "", v |-> bl.matches[1]]
    ELSE [err |-> "", v |-> ""]

(***************************************************************************)
(* Account selection.                                                      *)
(***************************************************************************)
get_user_list == files.users

\* The username set_user settles on, from the list and the request.
SelectUser(user_list, req) ==
    IF Len(user_list) > 1
    THEN IF req # "" /\ req \notin {user_list[i] : i \in 1..Len(user_list)}
         THEN user_list[1]
         ELSE req
    ELSE user_list[1]

\* _get_user_info: self.files[ptn] raises KeyError unless the backup holds
\* the mmsetting archive of that name; a failed nickname parse gives the
\* placeholder.
HasUserInfo(u) == u \in DOMAIN files.nick
DefaultNickname == <<24494, 20449, 29992, 25143>>
_get_user_info(u) == IF files.nick[u].parsed THEN files.nick[u].name ELSE DefaultNickname

(***************************************************************************)
(* The message table locator.                                              *)
(***************************************************************************)
\* _get_message_db_list: probe message_1, message_2, ... up to the first gap.
RECURSIVE DbListFrom(_, _)
DbListFrom(u, i) ==
    IF i \in files.msg[u].present
    THEN <<MessageDb(u, i)>> \o DbListFrom(u, i + 1)
    ELSE <<>>

_get_message_db_list(u) == DbListFrom(u, 1)

\* _get_message_db_tables: the sequence-table strategy, or, when it yields
\* nothing (also on an exception), the DDL scan.
_get_message_db_tables(u, i) ==
    IF files.msg[u].seq[i] # {} THEN files.msg[u].seq[i] ELSE files.msg[u].ddl[i]

\* A locator that keeps the first database met for a table name.
RECURSIVE TablesFromKeepFirst(_, _, _, _)
TablesFromKeepFirst(u, dbs, k, acc) ==
    IF k > Len(dbs) THEN acc
    ELSE LET tbs == _get_message_db_tables(u, dbs[k][4])
         IN  TablesFromKeepFirst(u, dbs, k + 1, acc @@ [tb \in tbs |-> dbs[k]])

\* The dict comprehension of _get_message_tables over dbs[k..]: a key met
\* again is assigned again.
RECURSIVE TablesFrom(_, _, _, _)
TablesFrom(u, dbs, k, acc) ==
    IF k > Len(dbs) THEN acc
    ELSE LET tbs == _get_message_db_tables(u, dbs[k][4])
         IN  TablesFrom(u, dbs, k + 1, [tb \in tbs |-> dbs[k]] @@ acc)

NoTables == [tb \in {} |-> <<>>]

_get_message_tables(u, dbs) == TablesFrom(u, dbs, 1, NoTables)

(***************************************************************************)
(* The contact and group tables.                                           *)
(***************************************************************************)
NoRows == [id \in {} |-> <<>>]
NoFrame == [db |-> <<>>, rows |-> NoRows]

\* One friend row of the try block: the first exception of its decoders, or
\* the decoded row.
FriendRow(id, row) ==
    LET r == parse_remark(row.remark)
        h == _parse_blob(row.headimg)
        g == _parse_blob(row.profile)
    IN  [err    |-> IF r.err # "" THEN r.err ELSE IF h.err # "" THEN h.err ELSE g.err,
         remark |-> r.data, headimg |-> h.v, gender |-> g.v,
         table  |-> ChatTable(id)]

\* parse_chatroom: _parse_blob runs outside the try; read_xml's failure on a
\* malformed or absent fragment gives the empty frame.
NoRoster == [id \in {} |-> [na |-> TRUE, v |-> <<>>]]
parse_chatroom(bl) ==
    LET x == _parse_blob(bl)
    IN  IF x.err # "" THEN [err |-> x.err, roster |-> NoRoster]
        ELSE IF x.v = "" \/ bl.malformed THEN [err |-> "", roster |-> NoRoster]
        ELSE [err |-> "", roster |-> bl.members]

GroupRow(id, row) ==
    LET r == parse_remark(row.remark)
        f == _parse_blob(row.founder)
        c == parse_chatroom(row.chatroom)
    IN  [err      |-> IF r.err # "" THEN r.err ELSE IF f.err # "" THEN f.err ELSE c.err,
         remark   |-> r.data, founder |-> f.v, chatroom |-> c.roster,
         table    |-> ChatTable(id)]

Strip(decoded) == [id \in DOMAIN decoded |-> [f \in DOMAIN decoded[id] \ {"err"} |-> decoded[id][f]]]

\* The friends try/except/else: any row's exception leaves self.friends as
\* it was; otherwise it is assigned the decoded frame.
BuildFriends(u, old) ==
    LET src == files.contact[u].friends
        dec == [id \in DOMAIN src |-> FriendRow(id, src[id])]
    IN  IF \E id \in DOMAIN src : dec[id].err # ""
        THEN [assigned |-> FALSE, frame |-> old]
        ELSE [assigned |-> TRUE, frame |-> [db |-> ContactDb(u), rows |-> Strip(dec)]]

BuildGroups(u, old) ==
    LET src == files.contact[u].groups
        dec == [id \in DOMAIN src |-> GroupRow(id, src[id])]
    IN  IF \E id \in DOMAIN src : dec[id].err # ""
        THEN [assigned |-> FALSE, frame |-> old]
        ELSE [assigned |-> TRUE, frame |-> [db |-> ContactDb(u), rows |-> Strip(dec)]]

(***************************************************************************)
(* set_user.  Python assigns the attributes one by one, so a call that     *)
(* raises leaves the ones assigned before the exception.                   *)
(***************************************************************************)
EmptyDate == [kind |-> "empty", day |-> 0, tod |-> 0]
NoCall == [op |-> "", user |-> "", peer |-> "", st |-> EmptyDate, et |-> EmptyDate,
           now |-> 0, use_display_name |-> TRUE]

SetUserCall(req) == [NoCall EXCEPT !.op = "set_user", !.user = req]

set_user(req) ==
    /\ call' = SetUserCall(req)
    /\ result' = <<>>
    /\ UNCHANGED <<files, remvars>>
    /\ IF Len(get_user_list) = 0
       THEN \* assert len(user_list) > 0
            /\ raised' = "AssertionError"
            /\ UNCHANGED <<username, nickname, message_dbs, message_tables,
                           friends, groups, attrs>>
       ELSE LET u == SelectUser(get_user_list, req)
            IN  /\ username' = u
                /\ IF ~HasUserInfo(u)
                   THEN /\ raised' = "KeyError"
                        /\ attrs' = attrs \cup {"username"}
                        /\ UNCHANGED <<nickname, message_dbs, message_tables,
                                       friends, groups>>
                   ELSE LET dbs == _get_message_db_list(u)
                            fr  == BuildFriends(u, friends)
                            gr  == BuildGroups(u, groups)
                        IN  /\ nickname' = _get_user_info(u)
                            /\ message_dbs' = dbs
                            /\ message_tables' = _get_message_tables(u, dbs)
                            /\ IF ~files.contact[u].readable
                               THEN \* get_contact: the contact database cannot be read
                                    /\ raised' = "DatabaseError"
                                    /\ attrs' = attrs \cup {"username", "nickname",
                                                  "message_dbs", "message_tables"}
                                    /\ UNCHANGED <<friends, groups>>
                               ELSE /\ raised' = ""
                                    /\ friends' = fr.frame
                                    /\ groups' = gr.frame
                                    /\ attrs' = attrs \cup {"username", "nickname",
                                                  "message_dbs", "message_tables"}
                                         \cup (IF fr.assigned THEN {"friends"} ELSE {})
                                         \cup (IF gr.assigned THEN {"groups"} ELSE {})

SetUser == \E req \in Requests : set_user(req)

InitObject ==
    /\ username = ""
    /\ nickname = <<>>
    /\ message_dbs = <<>>
    /\ message_tables = NoTables
    /\ friends = NoFrame
    /\ groups = NoFrame
    /\ attrs = {}
    /\ call = NoCall
    /\ raised = ""
    /\ result = <<>>

IdleRemark ==
    /\ blob = NullBlob
    /\ rpc = "idle"
    /\ remark = NoRemark

(***************************************************************************)
(* Backups.  The blobs of a contact row are carried as sample values, one  *)
(* for each way its decoder can end.                                       *)
(***************************************************************************)
Found(m) == [null |-> FALSE, matches |-> <<m>>]
NotFound == [null |-> FALSE, matches |-> <<>>]
NullColumn == [null |-> TRUE, matches |-> <<>>]

RemarkGood == Bytes(<<10, 1, 97>>)        \* nickname "a"
RemarkCut  == Bytes(<<10, 2, 97>>)        \* length 2, one payload byte
RemarkHalf == Bytes(<<10>>)               \* no length byte
RemarkUtf8 == Bytes(<<10, 1, 195>>)       \* half of a two-byte character

FriendGood  == [remark |-> RemarkGood, headimg |-> Found("http://h/a/b/0"), profile |-> Found("1")]
FriendPlain == [remark |-> Bytes(<<>>), headimg |-> NotFound, profile |-> NotFound]
FriendCut   == [remark |-> RemarkCut, headimg |-> Found("http://h/a/b/0"), profile |-> NotFound]
FriendHalf  == [remark |-> RemarkHalf, headimg |-> Found("http://h/a/b/0"), profile |-> Found("1")]
FriendRowSamples == {FriendGood, FriendPlain, FriendCut, FriendHalf}

\* A text cell (code points) and an identity cell; na marks pandas' NaN.
Text(t) == [na |-> FALSE, v |-> t]
NaText == [na |-> TRUE, v |-> <<>>]
Id(i) == [na |-> FALSE, v |-> i]
NaId == [na |-> TRUE, v |-> ""]

\* <RoomData> of the group: member_01 and member_02 carry a DisplayName,
\* member_03 does not.
RoomData == [null |-> FALSE, matches |-> <<"<RoomData>">>, malformed |-> FALSE,
             members |-> ("member_01" :> Text(<<49>>))
                         @@ ("member_02" :> Text(<<50>>))
                         @@ ("member_03" :> NaText)]
RoomBroken == [RoomData EXCEPT !.malformed = TRUE]
RoomNull == [null |-> TRUE, matches |-> <<>>, malformed |-> FALSE, members |-> NoRoster]

GroupGood   == [remark |-> RemarkGood, founder |-> Found("member_01"), chatroom |-> RoomData]
GroupBroken == [remark |-> RemarkGood, founder |-> NotFound, chatroom |-> RoomBroken]
GroupUtf8   == [remark |-> RemarkUtf8, founder |-> Found("member_01"), chatroom |-> RoomData]
GroupNull   == [remark |-> RemarkGood, founder |-> NullColumn, chatroom |-> RoomNull]
GroupRowSamples == {GroupGood, GroupBroken, GroupUtf8, GroupNull}

FriendIds == {"friend_01", "friend_02"}
TheGroup == "12345678@chatroom"
GroupIds == {TheGroup}

ContactDbs ==
    [readable : {TRUE}, friends : [FriendIds -> FriendRowSamples],
     groups : [GroupIds -> GroupRowSamples]]

GoodContactDb ==
    [readable |-> TRUE, friends |-> [id \in FriendIds |-> FriendGood],
     groups |-> [id \in GroupIds |-> GroupGood]]

ContactDbSamples ==
    {GoodContactDb,
     [GoodContactDb EXCEPT !.readable = FALSE],
     [GoodContactDb EXCEPT !.friends["friend_02"] = FriendHalf],
     [GoodContactDb EXCEPT !.groups[TheGroup] = GroupUtf8]}

Peers == {"friend_01", TheGroup}
ChatTables == {ChatTable(p) : p \in Peers}

\* What the two discovery strategies find in one database.
SeqFinds == {{}, {ChatTable("friend_01")}, ChatTables}
DdlFinds == {{}, {ChatTable(TheGroup)}}

MsgWorlds ==
    [present : SUBSET (1..MaxDb), seq : [1..MaxDb -> SeqFinds], ddl : [1..MaxDb -> DdlFinds]]

\* One database, holding both chat tables.
PlainMsgWorld ==
    [present |-> {1}, seq |-> [i \in 1..MaxDb |-> IF i = 1 THEN ChatTables ELSE {}],
     ddl |-> [i \in 1..MaxDb |-> {}]]

UserLists == {<<>>, <<"alice_01">>, <<"bobby_02">>,
              <<"alice_01", "bobby_02">>, <<"bobby_02", "alice_01">>}

Nicks(user_list) ==
    [u \in {user_list[i] : i \in 1..Len(user_list)} |->
        [parsed |-> u = "alice_01", name |-> <<65>>]]

NoChat == [k \in {} |-> <<>>]

\* Backups that vary the candidate accounts and the contact databases.
AccountBackups ==
    {[users |-> ul, nick |-> Nicks(ul),
      msg |-> [u \in Users |-> PlainMsgWorld],
      contact |-> ("alice_01" :> ca) @@ ("bobby_02" :> cb),
      chat |-> NoChat] :
        ul \in UserLists, ca \in ContactDbs, cb \in ContactDbSamples}

\* Backups that vary the message databases of the one account.
LocatorBackups ==
    {[users |-> <<"alice_01">>, nick |-> Nicks(<<"alice_01">>),
      msg |-> ("alice_01" :> mw) @@ ("bobby_02" :> PlainMsgWorld),
      contact |-> [u \in Users |-> GoodContactDb],
      chat |-> NoChat] : mw \in MsgWorlds}

Init ==
    /\ files \in AccountBackups \cup LocatorBackups
    /\ InitObject
    /\ IdleRemark

Next == SetUser

Spec == Init /\ [][Next]_vars

InitParse ==
    /\ files = CHOOSE f \in LocatorBackups : f.msg["alice_01"] = PlainMsgWorld
    /\ InitObject
    /\ InitRemark

NextParse == ParseRemarkCall

SpecRemark == InitParse /\ [][NextParse]_vars

(***************************************************************************)
(* Properties of account selection and the locator.                        *)
(***************************************************************************)
Candidates == {files.users[i] : i \in 1..Len(files.users)}

SetUserReturned == call.op = "set_user" /\ raised = ""

\* The account the specification selects for a request.
SpecifiedUser(req) ==
    IF Len(files.users) = 1 THEN files.users[1]
    ELSE IF req \in Candidates THEN req
    ELSE files.users[1]

\* C4: over a non-empty candidate set, set_user makes the only candidate
\* active, or the requested one when it is among several, or else (also with
\* no request) the first one, and the selection itself does not fail.
C4_SelectAccount ==
    (call.op = "set_user" /\ Len(files.users) > 0)
        => /\ username = SpecifiedUser(call.user)
           /\ raised # "KeyError"

\* C5: after a completed set_user no derived state holds data of an account
\* other than the selected one, also when a contact or group row fails to
\* decode.
C5_DerivedStateRebuilt ==
    SetUserReturned
        => /\ \A i \in 1..Len(message_dbs) : message_dbs[i][2] = _username_to_md5(username)
           /\ \A tb \in DOMAIN message_tables :
                  message_tables[tb][2] = _username_to_md5(username)
           /\ \A other \in Users \ {username} :
                  friends.db # ContactDb(other) /\ groups.db # ContactDb(other)

\* C9: after get_contact has run, every row of the friend projection and of
\* the group projection is in the contact table, respectively the group
\* table, whatever its enrichment fields decoded to.
C9_RowsKept ==
    SetUserReturned
        => /\ "friends" \in attrs /\ "groups" \in attrs
           /\ friends.db = ContactDb(username)
           /\ groups.db = ContactDb(username)
           /\ DOMAIN friends.rows = DOMAIN files.contact[username].friends
           /\ DOMAIN groups.rows = DOMAIN files.contact[username].groups

\* The databases message_1 .. message_k before the first gap.
DenseCount == CHOOSE k \in 0..MaxDb :
                  /\ 1..k \subseteq files.msg[username].present
                  /\ (k + 1) \notin files.msg[username].present

Holders(tb) == {i \in 1..DenseCount : tb \in _get_message_db_tables(username, i)}

Lowest(S) == CHOOSE i \in S : \A j \in S : i <= j
Highest(S) == CHOOSE i \in S : \A j \in S : i >= j

TablesBuilt == call.op = "set_user" /\ raised \in {"", "DatabaseError"}

DbsInOrder ==
    /\ Len(message_dbs) = DenseCount
    /\ \A i \in 1..DenseCount : message_dbs[i] = MessageDb(username, i)

DaySecs == 86400

BadDate == [kind |-> "bad", day |-> 0, tod |-> 0]
Iso(d, t) == [kind |-> "iso", day |-> d, tod |-> t]

\* datetime.fromisoformat: raises on anything but an ISO date or datetime
\* (also on "" and on None).
fromisoformat(d) == [err |-> d.kind # "iso", day |-> d.day, tod |-> d.tod]

\* .replace(hour=0, minute=0, second=0, microsecond=0).timestamp()
Midnight(day) == day * DaySecs

\* An end bound that forgets the day added to the end date.
EndBoundSameDay(edate, now) ==
    LET p == fromisoformat(edate)
    IN  Midnight(IF p.err THEN now \div DaySecs ELSE p.day)

\* et of _read_chat_message: the end date, or now when it does not parse,
\* at midnight, plus one day.
EndBound(edate, now) ==
    LET p  == fromisoformat(edate)
        ed == IF p.err THEN now \div DaySecs ELSE p.day
    IN  Midnight(ed + 1)

\* st of _read_chat_message: has is FALSE when no lower bound is added to the
\* query (no start date, or one that does not parse).
StartBound(sdate) ==
    IF sdate.kind = "empty" THEN [has |-> FALSE, st |-> 0]
    ELSE LET p == fromisoformat(sdate)
         IN  IF p.err THEN [has |-> FALSE, st |-> 0]
             ELSE [has |-> TRUE, st |-> Midnight(p.day)]

\* WHERE CreateTime < et [AND CreateTime >= st], in stored order.
RECURSIVE Where(_, _, _)
Where(rows, lo, et) ==
    IF rows = <<>> THEN <<>>
    ELSE LET r == Head(rows)
             keep == r.CreateTime < et /\ (lo.has => r.CreateTime >= lo.st)
         IN  (IF keep THEN <<r>> ELSE <<>>) \o Where(Tail(rows), lo, et)

\* A reader that takes the table from any database that holds it.
ReadAnyDb(contact, sdate, edate, now) ==
    LET table == ChatTable(contact)
        held  == {k \in DOMAIN files.chat : k[2] = table}
    IN  IF held = {} THEN <<>>
        ELSE Where(files.chat[CHOOSE k \in held : TRUE], StartBound(sdate), EndBound(edate, now))

\* _read_chat_message: the rows of the query, or the empty frame when the
\* locator has no entry for the table or the read fails.
_read_chat_message(contact, sdate, edate, now) ==
    LET table == ChatTable(contact)
    IN  IF "message_tables" \notin attrs \/ table \notin DOMAIN message_tables THEN <<>>
        ELSE LET database == message_tables[table]
             IN  IF <<database, table>> \notin DOMAIN files.chat THEN <<>>
                 ELSE Where(files.chat[<<database, table>>],
                            StartBound(sdate), EndBound(edate, now))

(***************************************************************************)
(* The message decoder.  A Message is carried as: the leading "sender:\n"  *)
(* prefix it has (prefix, "" for none), the text after it, and what each   *)
(* XPath of the decoder finds in that text ("" where lxml finds nothing or *)
(* the text is no XML).  Messages are non-empty.                           *)
(***************************************************************************)
MSG_TYPE == [text |-> 1, image |-> 3, audio |-> 34, bigheadimg |-> 42, video |-> 43,
             emoji |-> 47, location |-> 48, appmsg |-> 49, system |-> 10000,
             sysmsg |-> 10002]

ChatroomIds == {TheGroup}
IsChatroom(contact) == contact \in ChatroomIds

\* str.extract(RE_MESSAGE_SPLIT): the sender prefix and the rest.
SplitMessage(m) ==
    IF m.prefix # "" THEN [sender |-> Id(m.prefix), msg |-> [m EXCEPT !.prefix = ""]]
    ELSE [sender |-> NaId, msg |-> m]

\* _parse_xml: the first node of the XPath as a string, "" on any failure.
\* A text that still starts with a sender prefix is not parsed as XML.
_parse_xml(m, xpath) == IF m.prefix # "" THEN "" ELSE m.xml[xpath]

\* astype(int) on the text of <type>.
Numerals == ("5" :> 5) @@ ("33" :> 33)
AsInt(t) == IF t \in DOMAIN Numerals THEN [err |-> "", v |-> Numerals[t]]
            ELSE [err |-> "ValueError", v |-> 0]

\* _parse_videomsg
_parse_videomsg(m) == [sender |-> Id(_parse_xml(m, "videomsg/@fromusername"))]

\* _parse_appmsg: combine_first fills only NaN cells, and _parse_xml returns
\* a string always, so the sender is what "fromusername" gave.
_parse_appmsg(m) ==
    LET first  == Id(_parse_xml(m, "fromusername"))
        second == Id(_parse_xml(m, "fromUser"))
        t      == _parse_xml(m, "type")
    IN  [sender |-> IF first.na THEN second ELSE first,
         text   |-> _parse_xml(m, "title"),
         type   |-> IF t = "" THEN [err |-> "", v |-> MSG_TYPE.appmsg] ELSE AsInt(t)]

NaCell == [na |-> TRUE, prefix |-> "", v |-> ""]
Cell(pre, t) == [na |-> FALSE, prefix |-> pre, v |-> t]

\* One row of _parse_chat_message, in the order of its assignments.
ParseRow(row, contact) ==
    LET mymsg == row.Des = 0
        sp == IF IsChatroom(contact) /\ ~mymsg THEN SplitMessage(row.Message)
              ELSE [sender |-> NaId, msg |-> row.Message]
        m  == sp.msg
        app == _parse_appmsg(m)
        s1 == IF mymsg THEN Id(username) ELSE sp.sender
        s2 == IF row.Type = MSG_TYPE.video THEN _parse_videomsg(m).sender ELSE s1
        s3 == IF row.Type = MSG_TYPE.appmsg THEN app.sender ELSE s2
    IN  [raw    |-> row,
         err    |-> IF row.Type = MSG_TYPE.appmsg THEN app.type.err ELSE "",
         dt     |-> [day |-> row.CreateTime \div DaySecs, sec |-> row.CreateTime % DaySecs],
         sender |-> IF row.Type < 10000 /\ s3.na THEN Id(contact) ELSE s3,
         text   |-> IF row.Type = MSG_TYPE.text THEN Cell(m.prefix, m.text)
                    ELSE IF row.Type = MSG_TYPE.appmsg THEN Cell("", app.text)
                    ELSE IF row.Type = MSG_TYPE.image THEN Cell("", "[image]")
                    ELSE IF row.Type = MSG_TYPE.audio THEN Cell("", "[audio]")
                    ELSE IF row.Type = MSG_TYPE.video THEN Cell("", "[video]")
                    ELSE IF row.Type = MSG_TYPE.emoji THEN Cell("", "[emoji]")
                    ELSE NaCell,
         type   |-> IF row.Type = MSG_TYPE.appmsg /\ app.type.err = "" THEN app.type.v
                    ELSE row.Type]

\* _parse_chat_message: err is the exception it raises ("" : none).
_parse_chat_message(msg, contact) ==
    LET parsed == [i \in 1..Len(msg) |-> ParseRow(msg[i], contact)]
    IN  IF "username" \notin attrs THEN [err |-> "AttributeError", rows |-> <<>>]
        ELSE IF \E i \in 1..Len(msg) : parsed[i].err # ""
        THEN [err |-> "ValueError", rows |-> <<>>]
        ELSE [err |-> "", rows |-> parsed]

(***************************************************************************)
(* Display names of get_group_chat.  A name cell holds a text, or would    *)
(* hold an identity (id) where an identity string stands in for the name.  *)
(***************************************************************************)
NaName == [na |-> TRUE, text |-> <<>>, id |-> ""]
NameText(t) == [na |-> FALSE, text |-> t, id |-> ""]
NameId(i) == [na |-> FALSE, text |-> <<>>, id |-> i]
\* names[group] is assigned the groups' whole nickname column.
NicknameColumn == [na |-> FALSE, text |-> <<>>, id |-> "<Series>"]

HasNickname(frame) == \E id \in DOMAIN frame.rows : "nickname" \in DOMAIN frame.rows[id].remark

NicknameOf(frame, id) ==
    IF "nickname" \in DOMAIN frame.rows[id].remark
    THEN NameText(frame.rows[id].remark["nickname"])
    ELSE NaName

\* names before the roster is laid over it.
ContactNames(group) ==
    ((username :> NameText(nickname)) @@ (group :> NicknameColumn))
    @@ [id \in DOMAIN friends.rows |-> NicknameOf(friends, id)]

\* member["DisplayName"].combine_first(names)
RosterFirst(member, names) ==
    [id \in DOMAIN member \cup DOMAIN names |->
        IF id \in DOMAIN member /\ ~member[id].na THEN NameText(member[id].v)
        ELSE IF id \in DOMAIN names THEN names[id]
        ELSE NaName]

GroupNames(group, use_display_name) ==
    LET names  == ContactNames(group)
        member == groups.rows[group].chatroom
    IN  IF use_display_name /\ (\E id \in DOMAIN member : ~member[id].na)
        THEN RosterFirst(member, names)
        ELSE names

\* msg["sender"].map(names)
MapName(sender, names) ==
    IF sender.na \/ sender.v \notin DOMAIN names THEN NaName ELSE names[sender.v]

(***************************************************************************)
(* The queries.  As in __main__, a query follows a completed set_user; a    *)
(* query assigns no attribute, so the account state a query meets is the   *)
(* same whether or not other queries came before it.                       *)
(***************************************************************************)
Selected ==
    /\ {"username", "nickname", "message_dbs", "message_tables"} \subseteq attrs
    /\ call.op = "set_user" /\ raised = ""

FriendChatCall(friend, st, et, now) ==
    [NoCall EXCEPT !.op = "get_friend_chat", !.peer = friend, !.st = st, !.et = et,
                   !.now = now]

get_friend_chat(friend, st, et, now) ==
    /\ Selected
    /\ call' = FriendChatCall(friend, st, et, now)
    /\ LET msg == _parse_chat_message(_read_chat_message(friend, st, et, now), friend)
       IN  /\ raised' = msg.err
           /\ result' = msg.rows
    /\ UNCHANGED <<files, username, nickname, message_dbs, message_tables, friends,
                   groups, attrs, remvars>>

GroupChatCall(group, st, et, now, udn) ==
    [NoCall EXCEPT !.op = "get_group_chat", !.peer = group, !.st = st, !.et = et,
                   !.now = now, !.use_display_name = udn]

get_group_chat(group, st, et, now, use_display_name) ==
    /\ Selected
    /\ call' = GroupChatCall(group, st, et, now, use_display_name)
    /\ LET msg == _parse_chat_message(_read_chat_message(group, st, et, now), group)
       IN  IF msg.err # ""
           THEN raised' = msg.err /\ result' = <<>>
           ELSE IF "friends" \notin attrs
           THEN raised' = "AttributeError" /\ result' = <<>>
           ELSE IF ~HasNickname(friends)
           THEN raised' = "KeyError" /\ result' = <<>>
           ELSE IF "groups" \notin attrs
           THEN raised' = "AttributeError" /\ result' = <<>>
           ELSE IF ~HasNickname(groups)
                   \/ (use_display_name /\ group \notin DOMAIN groups.rows)
           THEN raised' = "KeyError" /\ result' = <<>>
           ELSE LET names == IF use_display_name
                             THEN GroupNames(group, use_display_name)
                             ELSE ContactNames(group)
                IN  /\ raised' = ""
                    /\ result' = [i \in 1..Len(msg.rows) |->
                                    [raw |-> msg.rows[i].raw, dt |-> msg.rows[i].dt,
                                     sender |-> msg.rows[i].sender,
                                     text |-> msg.rows[i].text, type |-> msg.rows[i].type,
                                     name |-> MapName(msg.rows[i].sender, names)]]
    /\ UNCHANGED <<files, username, nickname, message_dbs, message_tables, friends,
                   groups, attrs, remvars>>

(***************************************************************************)
(* Backups for the queries: one account, one message database with the     *)
(* tables of a friend and of a group.  Each table holds a text row at the  *)
(* first and the last second of every day; one of the two holds one more   *)
(* row, of any direction, type and content.                                *)
(***************************************************************************)
XPaths == {"videomsg/@fromusername", "fromusername", "fromUser", "title", "type"}
XmlNone == [k \in XPaths |-> ""]
Msg(pre, t, x) == [prefix |-> pre, text |-> t, xml |-> x]

Hello        == Msg("", "hello", XmlNone)
HelloFrom1   == Msg("member_01", "hello", XmlNone)
HelloFrom4   == Msg("member_04", "hello", XmlNone)
XmlBare      == Msg("", "<msg/>", XmlNone)
XmlFull      == Msg("", "<msg>full</msg>",
                    [XmlNone EXCEPT !["videomsg/@fromusername"] = "member_02",
                                    !["fromusername"] = "member_03",
                                    !["fromUser"] = "member_01",
                                    !["title"] = "Article", !["type"] = "5"])
XmlFromUser  == Msg("", "<msg>fromUser</msg>",
                    [XmlNone EXCEPT !["fromUser"] = "member_02", !["title"] = "Article"])
XmlFrom3Bare == Msg("member_03", "<msg/>", XmlNone)
XmlBadType   == Msg("member_01", "<msg>type</msg>",
                    [XmlNone EXCEPT !["fromusername"] = "member_04", !["type"] = "x"])

\* Text and system rows carry plain text, media and app-card rows XML; the
\* rows of a one-to-one table carry no sender prefix.
PlainTypes == {MSG_TYPE.text, MSG_TYPE.system}
XmlTypes == {MSG_TYPE.image, MSG_TYPE.video, MSG_TYPE.appmsg}
PlainMessages(p) == IF p = TheGroup THEN {Hello, HelloFrom1, HelloFrom4} ELSE {Hello}
XmlMessages(p) ==
    IF p = TheGroup THEN {XmlBare, XmlFull, XmlFromUser, XmlFrom3Bare, XmlBadType}
    ELSE {XmlBare, XmlFull, XmlFromUser}

\* The columns the decoder reads (the other stored columns pass through).
Row(t, des, ty, m) == [CreateTime |-> t, Des |-> des, Type |-> ty, Message |-> m]

RECURSIVE TimeRowsFrom(_)
TimeRowsFrom(d) ==
    IF d > MaxDay + 1 THEN <<>>
    ELSE <<Row(Midnight(d), 1, MSG_TYPE.text, Hello),
           Row(Midnight(d) + DaySecs - 1, 1, MSG_TYPE.text, Hello)>> \o TimeRowsFrom(d + 1)

TimeRows == TimeRowsFrom(0)

ExtraTime == Midnight(1) + 100

ExtraRows(p) ==
    {Row(ExtraTime, des, ty, m) : des \in {0, 1}, ty \in PlainTypes, m \in PlainMessages(p)}
    \cup {Row(ExtraTime, des, ty, m) : des \in {0, 1}, ty \in XmlTypes, m \in XmlMessages(p)}

ChatContactDb ==
    [readable |-> TRUE,
     friends |-> ("friend_01" :> FriendGood)
                 @@ ("member_01" :> FriendGood)
                 @@ ("member_03" :> [FriendGood EXCEPT !.remark = Bytes(<<10, 2, 195, 169>>)]),
     groups |-> [id \in GroupIds |-> GroupGood]]

\* listed: the tables the sequence table of message_1 names.
ChatBackup(listed, holder, extra) ==
    [users |-> <<"alice_01">>, nick |-> Nicks(<<"alice_01">>),
     msg |-> [u \in Users |->
                [present |-> {1},
                 seq |-> [i \in 1..MaxDb |-> IF i = 1 THEN {ChatTable(p) : p \in listed} ELSE {}],
                 ddl |-> [i \in 1..MaxDb |-> {}]]],
     contact |-> [u \in Users |-> ChatContactDb],
     chat |-> [k \in {<<MessageDb("alice_01", 1), ChatTable(p)>> : p \in Peers} |->
                 IF k[2] = ChatTable(holder) THEN TimeRows \o <<extra>> ELSE TimeRows]]

ChatBackups ==
    {ChatBackup(Peers, p, x) : p \in {"friend_01"}, x \in ExtraRows("friend_01")}
    \cup {ChatBackup(Peers, p, x) : p \in {TheGroup}, x \in ExtraRows(TheGroup)}
    \cup {ChatBackup({p}, "friend_01", Row(ExtraTime, 1, MSG_TYPE.text, Hello)) : p \in Peers}

QueryPeers == {"friend_01", TheGroup, "stranger_9"}
DateArgs == {EmptyDate, BadDate} \cup {Iso(d, 0) : d \in 0..MaxDay} \cup {Iso(1, 43200)}
NowVals == {Midnight(1) + 43200, Midnight(MaxDay) + 43200}

GetFriendChat ==
    \E friend \in QueryPeers, st \in DateArgs, et \in DateArgs, now \in NowVals :
        get_friend_chat(friend, st, et, now)

GetGroupChat ==
    \E group \in QueryPeers, st \in {EmptyDate, Iso(1, 0)}, now \in NowVals,
       use_display_name \in BOOLEAN :
        get_group_chat(group, st, EmptyDate, now, use_display_name)

InitChat ==
    /\ files \in ChatBackups
    /\ InitObject
    /\ IdleRemark

NextChat == SetUser \/ GetFriendChat \/ GetGroupChat

SpecChat == InitChat /\ [][NextChat]_vars

(***************************************************************************)
(* Properties of the queries and the decoder.                              *)
(***************************************************************************)
QueryReturned == call.op \in {"get_friend_chat", "get_group_chat"} /\ raised = ""

ResultRows == {result[i] : i \in 1..Len(result)}

\* C1: every returned message whose raw row has direction flag 0 has the
\* account's username as its sender, whatever its type and content, for
\* one-to-one and chatroom peers.
C1_MineIsAccount ==
    QueryReturned => \A r \in ResultRows : r.raw.Des = 0 => r.sender = Id(username)

\* The rows stored in the peer's table of the located database.
Located(peer) == ChatTable(peer) \in DOMAIN message_tables
Stored(peer) ==
    IF Located(peer) /\ <<message_tables[ChatTable(peer)], ChatTable(peer)>> \in DOMAIN files.chat
    THEN files.chat[<<message_tables[ChatTable(peer)], ChatTable(peer)>>]
    ELSE <<>>

\* The stored rows from the start of day S (any time, when S is no date) up
\* to the end of day E (today, when E is no date).
InDays(row, S, E, now) ==
    /\ S.kind = "iso" => row.CreateTime >= S.day * DaySecs
    /\ row.CreateTime < ((IF E.kind = "iso" THEN E.day ELSE now \div DaySecs) + 1) * DaySecs

StoredInDays(peer, S, E, now) ==
    {i \in 1..Len(Stored(peer)) : InDays(Stored(peer)[i], S, E, now)}

ReturnsDays(S, E) ==
    /\ {result[i].raw : i \in 1..Len(result)}
           = {Stored(call.peer)[i] : i \in StoredInDays(call.peer, S, E, call.now)}
    /\ Len(result) = Cardinality(StoredInDays(call.peer, S, E, call.now))

\* C2: with a start date that parses or is absent and an end date that
\* parses or is absent, get_friend_chat returns exactly the stored rows with
\* start-of-day(S) <= t < start-of-day(E + 1 day), E being today when absent.
C2_DateFilter ==
    (call.op = "get_friend_chat" /\ raised = ""
     /\ call.st.kind \in {"iso", "empty"} /\ call.et.kind \in {"iso", "empty"})
        => ReturnsDays(call.st, call.et)

C2_Witness ==
    /\ call.op = "get_friend_chat" /\ raised = ""
    /\ call.st.kind = "iso" /\ call.et.kind = "iso"
    /\ \E i \in 1..Len(Stored(call.peer)) :
           Stored(call.peer)[i].CreateTime = call.st.day * DaySecs - 1
    /\ \E i \in 1..Len(Stored(call.peer)) :
           Stored(call.peer)[i].CreateTime = (call.et.day + 1) * DaySecs
    /\ \E r \in ResultRows : r.raw.CreateTime = call.st.day * DaySecs
    /\ \E r \in ResultRows : r.raw.CreateTime = (call.et.day + 1) * DaySecs - 1
    /\ Len(result) < Len(Stored(call.peer))

\* C3 as stated: get_friend_chat returns the empty sequence and raises nothing
\* whenever the locator has no table for the peer or a given date string
\* does not parse.
C3_FailsClosed ==
    (call.op = "get_friend_chat"
     /\ (~Located(call.peer) \/ call.st.kind = "bad" \/ call.et.kind = "bad"))
        => raised = "" /\ result = <<>>

\* A row the decoder raises on: an app card whose XML (bare, or behind the
\* sender prefix of a received chatroom row) has a <type> that is no integer.
BadAppRow(peer, row) ==
    /\ row.Type = MSG_TYPE.appmsg
    /\ row.Message.prefix = "" \/ (IsChatroom(peer) /\ row.Des # 0)
    /\ row.Message.xml["type"] \notin {""} \cup DOMAIN Numerals

\* C3 amended: when the locator has no table for the peer, get_friend_chat
\* returns the empty sequence and raises nothing; a date string that does
\* not parse raises nothing either and does not empty the result: the end
\* date then counts as today, the start date as absent, and the stored rows
\* of that range are returned (unless the decoder raises on one of them).
C3_FailsClosedOnNoTable ==
    call.op = "get_friend_chat"
        => /\ ~Located(call.peer) => raised = "" /\ result = <<>>
           /\ (call.st.kind = "bad" \/ call.et.kind = "bad")
                  => \/ raised = "" /\ ReturnsDays(call.st, call.et)
                     \/ /\ raised = "ValueError"
                        /\ \E i \in StoredInDays(call.peer, call.st, call.et, call.now) :
                               BadAppRow(call.peer, Stored(call.peer)[i])

C3_Witness ==
    /\ call.op = "get_friend_chat" /\ raised = ""
    /\ call.st.kind = "bad" /\ call.et.kind = "bad"
    /\ result # <<>>
    /\ Len(result) < Len(Stored(call.peer))

\* What the specification counts as a resolvable sender of a one-to-one row:
\* the XML sender of a video or app-card row.
Resolvable(row) ==
    \/ row.Type = MSG_TYPE.video /\ row.Message.xml["videomsg/@fromusername"] # ""
    \/ row.Type = MSG_TYPE.appmsg
       /\ (row.Message.xml["fromusername"] # "" \/ row.Message.xml["fromUser"] # "")

\* C6: for a one-to-one peer, every returned row that is not mine, has a raw
\* type below 10000 and no resolvable sender has the peer as its sender,
\* video and app-card rows without an XML sender included.
C6_PeerIsSender ==
    (QueryReturned /\ ~IsChatroom(call.peer))
        => \A r \in ResultRows :
               (r.raw.Des # 0 /\ r.raw.Type < 10000 /\ ~Resolvable(r.raw))
                   => r.sender = Id(call.peer)

\* The display name the specification gives a sender: the roster's override,
\* else the contact nickname, else the identity itself.
SpecifiedName(group, s) ==
    LET member == groups.rows[group].chatroom
    IN  IF s \in DOMAIN member /\ ~member[s].na THEN NameText(member[s].v)
        ELSE IF s = username THEN NameText(nickname)
        ELSE IF s \in DOMAIN friends.rows /\ "nickname" \in DOMAIN friends.rows[s].remark
             THEN NameText(friends.rows[s].remark["nickname"])
        ELSE NameId(s)

\* C7: get_group_chat names every message with a resolved sender by the
\* roster's display name, else the contact nickname, else the sender
\* identity itself, so the name is never missing.  (Stated for the senders
\* that are a member's or a contact's identity: not the empty string, not
\* the group itself.)
C7_NamePriority ==
    (call.op = "get_group_chat" /\ raised = "" /\ call.use_display_name)
        => \A r \in ResultRows :
               (~r.sender.na /\ r.sender.v \notin {"", call.peer})
                   => /\ r.name = SpecifiedName(call.peer, r.sender.v)
                      /\ ~r.name.na

(***************************************************************************)
(* Properties of the remark decoder.                                       *)
(***************************************************************************)
\* A record of the buffer, walked from cursor c (0-based) in steps of
\* 2 + length, lacks its length byte or ends before its payload does.
RECURSIVE TruncatedFrom(_, _)
TruncatedFrom(b, c) ==
    IF c >= Len(b) THEN FALSE
    ELSE IF c + 1 >= Len(b) THEN TRUE
    ELSE IF c + 2 + b[c + 2] > Len(b) THEN TRUE
    ELSE TruncatedFrom(b, c + 2 + b[c + 2])

\* C8: on a buffer with a truncated record parse_remark fails; it never
\* returns a mapping.
C8_TruncatedFails ==
    (rpc = "done" /\ ~blob.null /\ TruncatedFrom(blob.bytes, 0)) => remark.err # ""

====
